---- MODULE Spec2Model ----
(***************************************************************************)
(* Model of src/utils.py: ProfileWebScraper (crawl frontier, page          *)
(* processor, accumulator/persister, driver loop) and main().              *)
(*                                                                         *)
(* A URL string is modelled by what urlparse makes of it: a record of      *)
(* scheme, netloc and path.  An anchor href is absolute, relative or       *)
(* malformed; urljoin resolves it against the page's URL.  The web, the    *)
(* extraction service and the interrupt signal are the environment: each   *)
(* fetch draws its outcome, the page's anchors and the extraction          *)
(* response from small sets.                                               *)
(***************************************************************************)
EXTENDS Integers, Sequences, FiniteSets, TLC

\* ---------------------------------------------------------------- bounds
MaxPagesBound == 2      \* max_pages is drawn from 0..MaxPagesBound
MaxLinks == 2           \* anchors per fetched page
MaxRecs == 1            \* records in one well-formed extraction response
ChainLen == 12          \* pages of the long site

\* ------------------------------------------------------ program constants
SavePeriod == 10        \* pages_scraped % 10 == 0
LineMin == 30           \* len(line.strip()) > 30

\* ------------------------------------------------------------------ URLs
Url(s, n, p) == [scheme |-> s, netloc |-> n, path |-> p]

NoUrl == Url("", "", "")

\* what the user may type at the prompt of main()
BaseUrls == {Url("http", "a", "/"), Url("ftp", "a", "/")}

Href(k, s, n, p) == [kind |-> k, scheme |-> s, netloc |-> n, path |-> p]

\* the anchors a page may carry
Hrefs ==
    { Href("abs", "http", "a", "/p1"),
      Href("abs", "http", "b", "/p1"),
      Href("abs", "ftp", "a", "/p1"),
      Href("rel", "", "", "/p2"),
      Href("bad", "", "", "[") }

\* a second, long site, for runs that process ten pages and more: its pages
\* are numbered, and each links to the next one or two of them
ChainPaths ==
    <<"/c1", "/c2", "/c3", "/c4", "/c5", "/c6", "/c7", "/c8", "/c9", "/c10",
      "/c11", "/c12", "/c13", "/c14", "/c15", "/c16">>

ChainBase == Url("http", "c", ChainPaths[1])

ChainIndex(url) == CHOOSE i \in DOMAIN ChainPaths : ChainPaths[i] = url.path

ChainAnchors(url) ==
    LET i == ChainIndex(url)
        next == IF i + 1 <= ChainLen
                THEN <<Href("rel", "", "", ChainPaths[i + 1])>> ELSE <<>>
        skip == IF i + 2 <= ChainLen
                THEN <<Href("rel", "", "", ChainPaths[i + 2])>> ELSE <<>>
    IN  {<<>>, next, next \o skip}

\* urljoin raises ValueError on a malformed href
UrlJoinRaises(h) == h.kind = "bad"

\* urljoin(current_url, href)
UrlJoin(cur, h) ==
    IF h.kind = "abs" THEN Url(h.scheme, h.netloc, h.path)
    ELSE Url(cur.scheme, cur.netloc, h.path)

Range(s) == {s[i] : i \in DOMAIN s}

NoDup(s) == \A i, j \in DOMAIN s : i # j => s[i] # s[j]

SeqsUpTo(S, n) == UNION {[1..k -> S] : k \in 0..n}

\* ------------------------------------------------------------- variables
VARIABLES
    base_url,       \* self.base_url
    max_pages,      \* argument of scrape_website
    visited_urls,   \* self.visited_urls
    urls_to_visit,  \* self.urls_to_visit
    profiles,       \* self.profiles
    pages_scraped,  \* local of scrape_website
    current_url,    \* local of scrape_website
    pc,             \* position of main / scrape_website / save_data
    save_ret,       \* where save_data returns to
    file_exists,    \* scraper_data/profiles.json exists
    file,           \* its content, a sequence of written chunks
    wpos,           \* chunks of the current json.dump already written
    call,           \* the scrape_page call in progress or just returned
    enq_log,        \* every URL appended to urls_to_visit, in order
    fetch_log,      \* every URL scrape_page was called with, in order
    anchors,        \* the hrefs extract_links was given (kept by LinkSpec only)
    text,           \* the argument of a clean_text call
    cleaned,        \* clean_text(text)
    recleaned       \* clean_text(clean_text(text))

\* what only the clean_text specification changes
textvars == <<text, cleaned, recleaned>>

vars == <<base_url, max_pages, visited_urls, urls_to_visit, profiles,
          pages_scraped, current_url, pc, save_ret, file_exists, file, wpos,
          call, enq_log, fetch_log, anchors, text, cleaned, recleaned>>

\* ------------------------------------------------------- crawl frontier
IsValidUrl_AnyScheme(url, base) == url.netloc = base.netloc

\* is_valid_url: same netloc as the base URL and an http(s) scheme
IsValidUrl(url, base) ==
    /\ url.netloc = base.netloc
    /\ url.scheme \in {"http", "https"}

ShouldAppend_IgnoreQueued(url, base, vis, q) ==
    /\ IsValidUrl(url, base)
    /\ url \notin vis

ShouldAppend_IgnoreVisited(url, base, vis, q) ==
    /\ IsValidUrl(url, base)
    /\ url \notin Range(q)

\* the condition of extract_links under which a resolved link is appended
ShouldAppend(url, base, vis, q) ==
    /\ IsValidUrl(url, base)
    /\ url \notin vis
    /\ url \notin Range(q)

\* the anchor lists drawn for a page
PageAnchors(url) ==
    IF url.netloc = ChainBase.netloc THEN ChainAnchors(url)
    ELSE SeqsUpTo(Hrefs, MaxLinks)

\* extract_links: the anchors in page order; a malformed href raises out of
\* the loop and leaves the links appended before it in the queue
RECURSIVE ExtractLinks(_, _, _, _, _)
ExtractLinks(q, vis, base, cur, hrefs) ==
    IF hrefs = <<>> THEN [queue |-> q, raised |-> FALSE]
    ELSE IF UrlJoinRaises(Head(hrefs)) THEN [queue |-> q, raised |-> TRUE]
    ELSE LET absolute_url == UrlJoin(cur, Head(hrefs))
             q2 == IF ShouldAppend(absolute_url, base, vis, q)
                   THEN Append(q, absolute_url) ELSE q
         IN  ExtractLinks(q2, vis, base, cur, Tail(hrefs))

PopLeft_Right(q) ==
    [url |-> q[Len(q)], rest |-> SubSeq(q, 1, Len(q) - 1)]

PopLeft_Peek(q) == [url |-> Head(q), rest |-> q]

\* deque.popleft()
PopLeft(q) == [url |-> Head(q), rest |-> Tail(q)]

MarkVisited_Forget(vis, url) == vis

\* self.visited_urls.add(current_url)
MarkVisited(vis, url) == vis \cup {url}

LoopGuard_OffByOne(q, n, m) == q # <<>> /\ n <= m

\* the while condition of scrape_website
LoopGuard(q, n, m) == q # <<>> /\ n < m

CountPage_Always(n, ok) == n + 1

\* if self.scrape_page(current_url): pages_scraped += 1
CountPage(n, ok) == IF ok THEN n + 1 ELSE n

NeedSave_NonZero(n) == n > 0 /\ n % SavePeriod = 0

\* if pages_scraped % 10 == 0
NeedSave(n) == n % SavePeriod = 0

\* ------------------------------------------------------------ clean_text
\* a string is the sequence of its characters
IsSpace(c) == c \in {" ", "\n", "\t"}

\* str.split(): the maximal runs of non-whitespace characters
RECURSIVE SplitWsFrom(_, _, _)
SplitWsFrom(s, word, out) ==
    IF s = <<>> THEN (IF word = <<>> THEN out ELSE Append(out, word))
    ELSE IF IsSpace(Head(s))
         THEN SplitWsFrom(Tail(s), <<>>, IF word = <<>> THEN out ELSE Append(out, word))
         ELSE SplitWsFrom(Tail(s), Append(word, Head(s)), out)

SplitWs(s) == SplitWsFrom(s, <<>>, <<>>)

\* str.split(sep): the pieces between the occurrences of sep, empty ones kept
RECURSIVE SplitOnFrom(_, _, _, _)
SplitOnFrom(s, sep, piece, out) ==
    IF s = <<>> THEN Append(out, piece)
    ELSE IF Head(s) = sep
         THEN SplitOnFrom(Tail(s), sep, <<>>, Append(out, piece))
         ELSE SplitOnFrom(Tail(s), sep, Append(piece, Head(s)), out)

SplitOn(s, sep) == SplitOnFrom(s, sep, <<>>, <<>>)

\* sep.join(parts)
RECURSIVE Join(_, _)
Join(sep, parts) ==
    IF parts = <<>> THEN <<>>
    ELSE IF Len(parts) = 1 THEN parts[1]
    ELSE parts[1] \o <<sep>> \o Join(sep, Tail(parts))

RECURSIVE LStrip(_)
LStrip(s) == IF s # <<>> /\ IsSpace(Head(s)) THEN LStrip(Tail(s)) ELSE s

RECURSIVE RStrip(_)
RStrip(s) ==
    IF s # <<>> /\ IsSpace(s[Len(s)]) THEN RStrip(SubSeq(s, 1, Len(s) - 1)) ELSE s

\* str.strip()
Strip(s) == RStrip(LStrip(s))

KeepLine_AtLeast(line) == Len(Strip(line)) >= LineMin

\* the filter of clean_text: len(line.strip()) > 30
KeepLine(line) == Len(Strip(line)) > LineMin

CleanText_RawLength(t) ==
    LET collapsed == Join(" ", SplitWs(t))
        lines == SelectSeq(SplitOn(collapsed, "\n"), LAMBDA line : Len(t) > LineMin)
    IN  Join("\n", lines)

\* clean_text
CleanText(t) ==
    LET collapsed == Join(" ", SplitWs(t))
        lines == SelectSeq(SplitOn(collapsed, "\n"), KeepLine)
    IN  Join("\n", lines)

Rep(c, n) == [i \in 1..n |-> c]

\* word lengths around the threshold and around half of it
WordLens ==
    {0, 1, LineMin \div 2 - 1, LineMin \div 2, LineMin \div 2 + 1,
     LineMin - 1, LineMin, LineMin + 1, LineMin + 2}

\* the page texts clean_text is tried on: two words with whitespace of
\* several kinds before, between and after them
Texts ==
    {lead \o Rep("x", a) \o sep \o Rep("y", b) \o trail :
        lead \in {<<>>, <<" ">>, <<"\n">>},
        a \in WordLens,
        sep \in {<<" ">>, <<" ", " ">>, <<"\n">>, <<" ", "\n", "\t">>},
        b \in WordLens,
        trail \in {<<>>, <<" ">>, <<"\n">>}}

\* ------------------------------------------------------------ extraction
\* a profile record as the extraction call returns it
Dict(n, a) == [name |-> n, about |-> a]

Records == {Dict("Ada", "bio"), Dict("Bob", "bio")}

Resp(k, items) == [kind |-> k, items |-> items]

NoResp == Resp("none", <<>>)

\* what the chat completion may come back with
Responses ==
    {Resp(k, <<>>) : k \in {"api_error", "not_json", "non_object", "no_key", "null"}}
    \cup {Resp("list", r) : r \in SeqsUpTo(Records, MaxRecs)}

ExtractProfilesWithOpenAI_NoCatch(resp) ==
    CASE resp.kind \in {"api_error", "not_json", "non_object", "null"} -> [type |-> "none", items |-> <<>>]
      [] OTHER -> [type |-> "list", items |-> resp.items]

\* the completions drawn for a page: on the long site, only the two that
\* add no profile
PageResponses(url) ==
    IF url.netloc = ChainBase.netloc
    THEN {Resp("not_json", <<>>), Resp("list", <<>>)}
    ELSE Responses

\* extract_profiles_with_openai: the value returned to scrape_page.  A raising
\* API call, unparsable content and a JSON value without .get all end in the
\* except branch, which returns []; an object without the key yields the
\* default []; otherwise whatever sits under "profiles" is returned as it is
ExtractProfilesWithOpenAI(resp) ==
    CASE resp.kind \in {"api_error", "not_json", "non_object"} -> [type |-> "list", items |-> <<>>]
      [] resp.kind = "no_key" -> [type |-> "list", items |-> <<>>]
      [] resp.kind = "null" -> [type |-> "none", items |-> <<>>]
      [] OTHER -> [type |-> "list", items |-> resp.items]

\* list.extend raises TypeError on None
ExtendRaises(val) == val.type = "none"

Extend_Dedup(profs, val) ==
    profs \o SelectSeq(val.items, LAMBDA r : r \notin Range(profs))

\* self.profiles.extend(extracted_profiles)
Extend(profs, val) == profs \o val.items

\* requests.get / raise_for_status; there is no connection adapter for a
\* scheme other than http(s)
FetchOutcomes(url) ==
    IF url.scheme \in {"http", "https"} THEN {"timeout", "http_error", "ok"}
    ELSE {"invalid_schema"}

\* ------------------------------------------------------------- persister
\* the chunk written by json.dump for one record of the list: an object
\* with its keys in insertion order
EncodeValue(v) == <<"{", "name", v.name, "about", v.about, "}">>

DumpOpen == <<"{", "profiles", "[">>

DumpClose == <<"]", "}">>

\* json.dump({"profiles": self.profiles}, f, indent=2), as the chunks written
Dump(profs) ==
    <<DumpOpen>> \o [i \in 1..Len(profs) |-> EncodeValue(profs[i])] \o <<DumpClose>>

OpenForWrite_Append(content) == content

\* open(output_file, 'w'): the file is created or truncated
OpenForWrite(content) == <<>>

\* --------------------------------------------------------------- actions
\* the record of a scrape_page call: what its collaborators answered, which
\* step raised, what it returned, the resolved links is_valid_url refused,
\* the admitted ones it skipped as visited or queued, and the profile list,
\* queue and page count it started from
NoCall == [fetch |-> "none", kind |-> "none", items |-> <<>>,
           ok |-> FALSE, raised |-> "none",
           refused |-> {}, known |-> {},
           profiles0 |-> <<>>, queue0 |-> <<>>, pages0 |-> 0]

\* __init__ and main() up to the call of scrape_website
Init ==
    /\ base_url \in BaseUrls
    /\ max_pages \in 0..MaxPagesBound
    /\ visited_urls = {}
    /\ urls_to_visit = <<>>
    /\ profiles = <<>>
    /\ pages_scraped = 0
    /\ current_url = NoUrl
    /\ pc = "main"
    /\ save_ret = "none"
    /\ file_exists = FALSE
    /\ file = <<>>
    /\ wpos = 0
    /\ call = NoCall
    /\ enq_log = <<>>
    /\ fetch_log = <<>>
    /\ anchors = <<>>
    /\ text = <<>>
    /\ cleaned = <<>>
    /\ recleaned = <<>>

\* scrape_website, before the loop: the base URL is appended unconditionally
StartCrawl ==
    /\ UNCHANGED <<anchors, textvars>>
    /\ pc = "main"
    /\ urls_to_visit' = Append(urls_to_visit, base_url)
    /\ enq_log' = Append(enq_log, base_url)
    /\ pages_scraped' = 0
    /\ pc' = "loop"
    /\ UNCHANGED <<base_url, max_pages, visited_urls, profiles, current_url,
                   save_ret, file_exists, file, wpos, call, fetch_log>>

\* the loop head: popleft, the visited test, add, sleep, and the call of
\* scrape_page
Dequeue ==
    /\ UNCHANGED <<anchors, textvars>>
    /\ pc = "loop"
    /\ LoopGuard(urls_to_visit, pages_scraped, max_pages)
    /\ LET p == PopLeft(urls_to_visit) IN
       /\ urls_to_visit' = p.rest
       /\ current_url' = p.url
       /\ IF p.url \in visited_urls
          THEN /\ pc' = "loop"
               /\ UNCHANGED <<visited_urls, call, fetch_log>>
          ELSE /\ visited_urls' = MarkVisited(visited_urls, p.url)
               /\ call' = [NoCall EXCEPT !.profiles0 = profiles, !.queue0 = p.rest,
                                      !.pages0 = pages_scraped]
               /\ fetch_log' = Append(fetch_log, p.url)
               /\ pc' = "get"
    /\ UNCHANGED <<base_url, max_pages, profiles, pages_scraped, save_ret,
                   file_exists, file, wpos, enq_log>>

\* scrape_page: requests.get and raise_for_status; on an exception it returns
\* False, which scrape_website does not count
Fetch ==
    /\ UNCHANGED <<anchors, textvars>>
    /\ pc = "get"
    /\ \E fetch \in FetchOutcomes(current_url) :
        /\ call' = [call EXCEPT !.fetch = fetch,
                                !.raised = CASE fetch = "ok" -> "none"
                                             [] fetch = "http_error" -> "status"
                                             [] OTHER -> "get"]
        /\ IF fetch = "ok"
           THEN pc' = "extract" /\ UNCHANGED pages_scraped
           ELSE pc' = "check" /\ pages_scraped' = CountPage(pages_scraped, FALSE)
    /\ UNCHANGED <<base_url, max_pages, visited_urls, urls_to_visit, profiles,
                   current_url, save_ret, file_exists, file, wpos, enq_log, fetch_log>>

\* scrape_page: the extraction call and self.profiles.extend
Extract ==
    /\ UNCHANGED <<anchors, textvars>>
    /\ pc = "extract"
    /\ \E resp \in PageResponses(current_url) :
        LET extracted_profiles == ExtractProfilesWithOpenAI(resp) IN
        IF ExtendRaises(extracted_profiles)
        THEN /\ call' = [call EXCEPT !.kind = resp.kind, !.items = resp.items,
                                     !.raised = "extend"]
             /\ pages_scraped' = CountPage(pages_scraped, FALSE)
             /\ pc' = "check"
             /\ UNCHANGED profiles
        ELSE /\ call' = [call EXCEPT !.kind = resp.kind, !.items = resp.items]
             /\ profiles' = Extend(profiles, extracted_profiles)
             /\ pc' = "links"
             /\ UNCHANGED pages_scraped
    /\ UNCHANGED <<base_url, max_pages, visited_urls, urls_to_visit, current_url,
                   save_ret, file_exists, file, wpos, enq_log, fetch_log>>

\* scrape_page: extract_links on the anchors hrefs, and the return;
\* scrape_website counts a True
LinksOf(hrefs) ==
    /\ pc = "links"
    /\ LET el == ExtractLinks(urls_to_visit, visited_urls, base_url, current_url, hrefs)
           seen == IF el.raised
                   THEN SubSeq(hrefs, 1, (CHOOSE i \in DOMAIN hrefs :
                            /\ UrlJoinRaises(hrefs[i])
                            /\ \A j \in 1..(i - 1) : ~UrlJoinRaises(hrefs[j])) - 1)
                   ELSE hrefs
           urls == {UrlJoin(current_url, seen[i]) : i \in DOMAIN seen}
       IN  /\ urls_to_visit' = el.queue
           /\ enq_log' = enq_log \o SubSeq(el.queue, Len(urls_to_visit) + 1, Len(el.queue))
           /\ call' = [call EXCEPT
                         !.ok = ~el.raised,
                         !.raised = IF el.raised THEN "links" ELSE "none",
                         !.refused = {u \in urls : ~IsValidUrl(u, base_url)},
                         !.known = {u \in urls : /\ IsValidUrl(u, base_url)
                                                 /\ u \notin Range(el.queue)}]
           /\ pages_scraped' = CountPage(pages_scraped, ~el.raised)
    /\ pc' = "check"
    /\ UNCHANGED <<base_url, max_pages, visited_urls, profiles, current_url,
                   save_ret, file_exists, file, wpos, fetch_log, textvars>>

Links ==
    \E hrefs \in PageAnchors(current_url) :
        LinksOf(hrefs) /\ UNCHANGED anchors

\* the same step, the anchors of the page kept for inspection
LinksSeen ==
    \E hrefs \in PageAnchors(current_url) :
        LinksOf(hrefs) /\ anchors' = hrefs

\* the periodic save test at the end of the loop body
CheckSave ==
    /\ anchors' = <<>>
    /\ UNCHANGED textvars
    /\ pc = "check"
    /\ IF NeedSave(pages_scraped)
       THEN pc' = "save" /\ save_ret' = "loop"
       ELSE pc' = "loop" /\ UNCHANGED save_ret
    /\ call' = NoCall
    /\ UNCHANGED <<base_url, max_pages, visited_urls, urls_to_visit, profiles,
                   pages_scraped, current_url, file_exists, file, wpos,
                   enq_log, fetch_log>>

\* the loop condition is false: the final save_data()
ExitLoop ==
    /\ UNCHANGED <<anchors, textvars>>
    /\ pc = "loop"
    /\ ~LoopGuard(urls_to_visit, pages_scraped, max_pages)
    /\ pc' = "save"
    /\ save_ret' = "done"
    /\ UNCHANGED <<base_url, max_pages, visited_urls, urls_to_visit, profiles,
                   pages_scraped, current_url, file_exists, file, wpos, call,
                   enq_log, fetch_log>>

\* save_data: open(output_file, 'w')
SaveOpen ==
    /\ UNCHANGED <<anchors, textvars>>
    /\ pc = "save"
    /\ file_exists' = TRUE
    /\ file' = OpenForWrite(file)
    /\ wpos' = 0
    /\ pc' = "write"
    /\ UNCHANGED <<base_url, max_pages, visited_urls, urls_to_visit, profiles,
                   pages_scraped, current_url, save_ret, call, enq_log, fetch_log>>

\* save_data: json.dump writes its next chunk
SaveWrite ==
    /\ UNCHANGED <<anchors, textvars>>
    /\ pc = "write"
    /\ wpos < Len(Dump(profiles))
    /\ file' = Append(file, Dump(profiles)[wpos + 1])
    /\ wpos' = wpos + 1
    /\ UNCHANGED <<base_url, max_pages, visited_urls, urls_to_visit, profiles,
                   pages_scraped, current_url, pc, save_ret, file_exists, call,
                   enq_log, fetch_log>>

\* save_data: the with block closes the file and save_data returns
SaveClose ==
    /\ UNCHANGED <<anchors, textvars>>
    /\ pc = "write"
    /\ wpos = Len(Dump(profiles))
    /\ pc' = save_ret
    /\ save_ret' = "none"
    /\ UNCHANGED <<base_url, max_pages, visited_urls, urls_to_visit, profiles,
                   pages_scraped, current_url, file_exists, file, wpos, call,
                   enq_log, fetch_log>>

\* KeyboardInterrupt, at any point of the run: it is no Exception, so only
\* main() catches it; a with block it passes through closes the file with
\* what was written so far
Interrupt ==
    /\ UNCHANGED <<anchors, textvars>>
    /\ pc \notin {"done", "interrupted"}
    /\ pc' = "interrupted"
    /\ UNCHANGED <<base_url, max_pages, visited_urls, urls_to_visit, profiles,
                   pages_scraped, current_url, save_ret, file_exists, file, wpos,
                   call, enq_log, fetch_log>>

\* the steps of an uninterrupted run
NextRun ==
    \/ StartCrawl
    \/ Dequeue
    \/ Fetch
    \/ Extract
    \/ Links
    \/ CheckSave
    \/ ExitLoop
    \/ SaveOpen
    \/ SaveWrite
    \/ SaveClose

Next ==
    \/ NextRun
    \/ Interrupt

Spec == Init /\ [][Next]_vars

\* the run is sequential and nothing but an interrupt stops it: every call
\* returns (the fetch has a timeout), so an uninterrupted run keeps stepping
LiveSpec == Init /\ [][NextRun]_vars /\ WF_vars(NextRun)

\* the uninterrupted run again, remembering each page's anchors until the
\* loop body ends
NextSeen ==
    \/ StartCrawl
    \/ Dequeue
    \/ Fetch
    \/ Extract
    \/ LinksSeen
    \/ CheckSave
    \/ ExitLoop
    \/ SaveOpen
    \/ SaveWrite
    \/ SaveClose

LinkSpec == Init /\ [][NextSeen]_vars

\* a run on the long site, with a budget of all its pages
ChainInit ==
    /\ base_url = ChainBase
    /\ max_pages = ChainLen
    /\ visited_urls = {}
    /\ urls_to_visit = <<>>
    /\ profiles = <<>>
    /\ pages_scraped = 0
    /\ current_url = NoUrl
    /\ pc = "main"
    /\ save_ret = "none"
    /\ file_exists = FALSE
    /\ file = <<>>
    /\ wpos = 0
    /\ call = NoCall
    /\ enq_log = <<>>
    /\ fetch_log = <<>>
    /\ anchors = <<>>
    /\ text = <<>>
    /\ cleaned = <<>>
    /\ recleaned = <<>>

ChainSpec == ChainInit /\ [][Next]_vars

\* clean_text applied to a text, and again to its result
CleanInit ==
    /\ base_url \in BaseUrls
    /\ max_pages = 0
    /\ visited_urls = {}
    /\ urls_to_visit = <<>>
    /\ profiles = <<>>
    /\ pages_scraped = 0
    /\ current_url = NoUrl
    /\ pc = "clean"
    /\ save_ret = "none"
    /\ file_exists = FALSE
    /\ file = <<>>
    /\ wpos = 0
    /\ call = NoCall
    /\ enq_log = <<>>
    /\ fetch_log = <<>>
    /\ anchors = <<>>
    /\ text \in Texts
    /\ cleaned = <<>>
    /\ recleaned = <<>>

Clean ==
    /\ pc = "clean"
    /\ cleaned' = CleanText(text)
    /\ pc' = "cleaned"
    /\ UNCHANGED <<base_url, max_pages, visited_urls, urls_to_visit, profiles,
                   pages_scraped, current_url, save_ret, file_exists, file, wpos,
                   call, enq_log, fetch_log, anchors, text, recleaned>>

Reclean ==
    /\ pc = "cleaned"
    /\ recleaned' = CleanText(cleaned)
    /\ pc' = "recleaned"
    /\ UNCHANGED <<base_url, max_pages, visited_urls, urls_to_visit, profiles,
                   pages_scraped, current_url, save_ret, file_exists, file, wpos,
                   call, enq_log, fetch_log, anchors, text, cleaned>>

CleanNext ==
    \/ Clean
    \/ Reclean

CleanSpec == CleanInit /\ [][CleanNext]_vars

\* ---------------------------------------------------------------- claims
Count(s, x) == Cardinality({i \in DOMAIN s : s[i] = x})

Pos(s, x) == CHOOSE i \in DOMAIN s : s[i] = x

\* admission as the specification words it: the host of the base URL and an
\* http or https scheme
Admitted(u) == u.netloc = base_url.netloc /\ u.scheme \in {"http", "https"}

FetchFailed == call.fetch \in {"timeout", "http_error", "invalid_schema"}

\* f is a completely written snapshot of a prefix of the profile list
IsSnapshot(f) ==
    \E k \in 0..Len(profiles) : f = Dump(SubSeq(profiles, 1, k))

\* C1: no URL is both visited and pending, no URL is pending twice, and a
\* URL that has entered the visited set was appended to the queue once and
\* never again.
C1_FrontierDisjoint ==
    /\ visited_urls \cap Range(urls_to_visit) = {}
    /\ NoDup(urls_to_visit)
    /\ \A u \in visited_urls : Count(enq_log, u) = 1

\* C1 witness: a page linked to a URL already visited, and it was not queued
C1_Witness ==
    /\ pc = "check"
    /\ call.ok
    /\ call.known \cap visited_urls # {}
    /\ urls_to_visit # <<>>

\* C2 as claimed: every URL in the queue is admitted, the base URL included.
C2_OnlyAdmittedQueued == \A u \in Range(urls_to_visit) : Admitted(u)

\* C2 as amended: link discovery never appends a URL that is not admitted;
\* only the base URL, which scrape_website appends first and unchecked, can
\* be queued without being admitted.
C2_OnlyAdmittedDiscovered ==
    /\ \A i \in DOMAIN enq_log : i > 1 => Admitted(enq_log[i])
    /\ \A u \in Range(urls_to_visit) : Admitted(u) \/ u = base_url

\* C2 witness: a page offered links that are not admitted next to one that
\* is, and only the admitted one was queued
C2_Witness ==
    /\ pc = "check"
    /\ call.ok
    /\ call.refused # {}
    /\ Len(urls_to_visit) > Len(call.queue0)

\* C3 as claimed: when scrape_page returns False, the profile list and the
\* queue are as they were when it was called.
C3_FailureLeavesNoTrace ==
    (pc = "check" /\ ~call.ok) =>
        /\ profiles = call.profiles0
        /\ urls_to_visit = call.queue0

C5_FetchFailure ==
    /\ (pc = "check" /\ FetchFailed) =>
          /\ ~call.ok
          /\ current_url \in visited_urls
          /\ pages_scraped = call.pages0
          /\ urls_to_visit # <<>> => LoopGuard(urls_to_visit, pages_scraped, max_pages)
    /\ NoDup(fetch_log)

\* C5 witness: a fetch timed out after an earlier page had queued links, and
\* URLs are still pending
C5_Witness ==
    /\ pc = "check"
    /\ call.fetch = "timeout"
    /\ Len(fetch_log) >= 2
    /\ urls_to_visit # <<>>

\* C6: every uninterrupted run reaches DONE; when every fetch fails it does
\* so with no profiles and (a fetch having been attempted) an empty queue.
C6_Terminates ==
    /\ <>(pc = "done")
    /\ [](call.fetch # "ok") =>
          <>(/\ pc = "done"
             /\ profiles = <<>>
             /\ max_pages > 0 => urls_to_visit = <<>>)

\* C6 witness: a run with successes and failures ended by queue exhaustion
C6_Witness ==
    /\ pc = "done"
    /\ urls_to_visit = <<>>
    /\ Len(fetch_log) >= 3
    /\ pages_scraped < max_pages

\* C7: URLs are fetched in the order they were appended: of two fetched
\* URLs the one appended first is fetched first; the queue is always what
\* was appended and not yet fetched, in append order.
C7_Fifo ==
    /\ \A i, j \in DOMAIN enq_log :
          (i < j /\ enq_log[i] \in Range(fetch_log) /\ enq_log[j] \in Range(fetch_log))
              => Pos(fetch_log, enq_log[i]) < Pos(fetch_log, enq_log[j])
    /\ enq_log = fetch_log \o urls_to_visit

\* C7 witness: three URLs were fetched, the last two queued by one page
C7_Witness ==
    /\ Len(fetch_log) = 3
    /\ pages_scraped = 1

\* C8: the visited set only grows, one URL at a time, a URL is added only
\* when it is not in it yet, and no URL is fetched twice.
C8_VisitedGrows ==
    [][/\ visited_urls \subseteq visited_urls'
       /\ visited_urls' # visited_urls =>
             \E u \in visited_urls' \ visited_urls :
                /\ visited_urls' = visited_urls \cup {u}
                /\ Count(fetch_log, u) = 0
       /\ fetch_log' # fetch_log =>
             /\ visited_urls' # visited_urls
             /\ fetch_log' = Append(fetch_log, current_url')
             /\ current_url' \notin visited_urls
       /\ NoDup(fetch_log')]_vars

\* C8 witness: three URLs have been visited
C8_Witness == Cardinality(visited_urls) = 3 /\ Len(fetch_log) = 3

\* C9: at DONE the file exists and holds the dump of the final profile list.
C9_FinalSave ==
    pc = "done" =>
        /\ file_exists
        /\ file = Dump(profiles)
        /\ Len(file) = Len(profiles) + 2

\* C9 witness: a run ended with profiles of two pages on file
C9_Witness ==
    /\ pc = "done"
    /\ Len(profiles) >= 2
    /\ file = Dump(profiles)

\* C10 as claimed: once the program has exited, interrupted or not, the file
\* is absent or a completely written snapshot of the profile list as of some
\* save.
C10_FileNeverPartial ==
    pc \in {"interrupted", "done"} => (~file_exists \/ IsSnapshot(file))

\* C11: with max_pages = 0 nothing is fetched or visited, and the run ends
\* in DONE with the dump of an empty profile list on file.
C11_ZeroBudget ==
    /\ [](max_pages = 0 =>
            /\ visited_urls = {}
            /\ fetch_log = <<>>
            /\ profiles = <<>>
            /\ pc \in {"main", "loop", "save", "write", "done"}
            /\ pc = "done" => file_exists /\ file = <<DumpOpen, DumpClose>>)
    /\ (max_pages = 0) => <>(pc = "done")

\* C11 witness: a run with max_pages = 0 is done, the empty list saved
C11_Witness ==
    /\ max_pages = 0
    /\ pc = "done"
    /\ urls_to_visit = <<base_url>>
    /\ file = <<DumpOpen, DumpClose>>

\* C12 as claimed: a response that is not JSON of the shape
\* {"profiles": [...]} yields zero profiles and the page still succeeds and
\* is counted (link discovery itself not raising).
C12_BadShapeNotPropagated ==
    (/\ pc = "check"
     /\ call.kind \in {"not_json", "non_object", "no_key", "null"}
     /\ call.raised # "links") =>
        /\ profiles = call.profiles0
        /\ call.ok
        /\ pages_scraped = call.pages0 + 1

\* C15: a completed save leaves the dump of the current profile list and
\* nothing else on file, whatever the file held before, and no step of
\* save_data changes the visited set, the queue, the list or the counter.
C15_SaveSnapshot ==
    [][/\ (pc = "write" /\ pc' \in {"loop", "done"}) =>
             /\ file_exists'
             /\ file' = <<DumpOpen>> \o [i \in 1..Len(profiles') |-> EncodeValue(profiles'[i])]
                           \o <<DumpClose>>
       /\ pc \in {"save", "write"} =>
             UNCHANGED <<visited_urls, urls_to_visit, profiles, pages_scraped>>]_vars

\* C15 witness: a second save with no append since the first is complete
C15_Witness ==
    /\ pc = "write"
    /\ save_ret = "loop"
    /\ wpos = Len(Dump(profiles))
    /\ file = Dump(profiles)
    /\ Len(fetch_log) >= 2
    /\ pages_scraped = 0

\* C16 as claimed: the loop body ends in a periodic save exactly when its
\* page was processed successfully and the count is a multiple of 10.
C16_SaveOnlyAfterSuccess ==
    [][(pc = "check" /\ pc' # "interrupted") =>
          (pc' = "save" <=> (call.ok /\ pages_scraped % SavePeriod = 0))]_vars

\* C16 as amended: the loop body ends in a periodic save exactly when the
\* count is a multiple of 10 at that point, whether or not its page was
\* processed successfully.
C16_SaveOnMultiple ==
    [][(pc = "check" /\ pc' # "interrupted") =>
          /\ (pc' = "save" /\ save_ret' = "loop") <=> (pages_scraped % SavePeriod = 0)
          /\ pc' \in {"save", "loop"}
          /\ pages_scraped' = pages_scraped]_vars

\* C16 witness: ten pages have been processed and saved, a later page was
\* not processed, and the periodic save has been started again for the same
\* count (on the long site the file can only exist here from the save that
\* followed the tenth page)
C16_Witness ==
    /\ pc = "save"
    /\ save_ret = "loop"
    /\ pages_scraped = SavePeriod
    /\ Len(fetch_log) > SavePeriod
    /\ file_exists

C19_Budget ==
    /\ pages_scraped <= max_pages
    /\ pc \in {"get", "extract", "links"} => pages_scraped < max_pages
    /\ Len(fetch_log) <= Cardinality(Range(enq_log))

\* C19 witness: more fetches were attempted than max_pages
C19_Witness ==
    /\ max_pages > 0
    /\ Len(fetch_log) > max_pages

\* C20: the URL the loop pops is never in the visited set, so every pop
\* marks it visited and calls scrape_page with it.
C20_NoSkip ==
    [][(pc = "loop" /\ urls_to_visit' # urls_to_visit) =>
          /\ Head(urls_to_visit) \notin visited_urls
          /\ current_url' = Head(urls_to_visit)
          /\ visited_urls' = visited_urls \cup {current_url'}
          /\ fetch_log' = Append(fetch_log, current_url')
          /\ pc' = "get"]_vars

\* C20 witness: the third URL has been popped and its fetch is about to start
C20_Witness ==
    /\ pc = "get"
    /\ Len(fetch_log) = 3
    /\ Cardinality(visited_urls) = 3

\* the text after ' '.join(text.split())
Collapsed(t) == Join(" ", SplitWs(t))

\* C13 as claimed: the collapsed text is kept when it has at least 30
\* characters and dropped when it has fewer.
C13_KeepsAtLeast30 ==
    pc = "cleaned" =>
        cleaned = (IF Len(Collapsed(text)) >= 30 THEN Collapsed(text) ELSE <<>>)

\* C13 as amended: the collapsed text (always a single line, the collapse
\* having replaced the line breaks too) is kept when it has more than 30
\* characters and dropped when it has 30 or fewer.
C13_KeepsMoreThan30 ==
    pc = "cleaned" =>
        /\ cleaned = (IF Len(Collapsed(text)) > 30 THEN Collapsed(text) ELSE <<>>)
        /\ \A i \in DOMAIN cleaned : cleaned[i] \notin {"\n", "\t"}

\* C13 witness: a text that collapses to 31 characters is kept, collapsed
C13_Witness ==
    /\ pc = "cleaned"
    /\ Len(Collapsed(text)) = 31
    /\ Len(text) > 31
    /\ cleaned = Collapsed(text)

\* C14: cleaning the cleaned text changes nothing.
C14_Idempotent == pc = "recleaned" => recleaned = cleaned

\* C14 witness: a text that cleaning changed and did not empty was cleaned
\* twice
C14_Witness ==
    /\ pc = "recleaned"
    /\ cleaned # <<>>
    /\ cleaned # text
    /\ recleaned = cleaned

\* the targets of the anchors of the page just processed, resolved
Targets == [i \in DOMAIN anchors |-> UrlJoin(current_url, anchors[i])]

\* the i-th target is admitted, neither visited nor queued before the call,
\* and not the target of an earlier anchor of the page
FreshTarget(i) ==
    /\ Admitted(Targets[i])
    /\ Targets[i] \notin visited_urls
    /\ Targets[i] \notin Range(call.queue0)
    /\ \A j \in 1..(i - 1) : Targets[j] # Targets[i]

\* C17: after a successfully processed page the queue is what it was,
\* followed by the page's admitted, unvisited, unqueued targets, each once,
\* in page order; neither a rejected target nor the page's own URL is added.
C17_Discovery ==
    (pc = "check" /\ call.ok) =>
        LET idx == SelectSeq([i \in DOMAIN anchors |-> i], FreshTarget)
            added == [k \in DOMAIN idx |-> Targets[idx[k]]]
        IN  /\ urls_to_visit = call.queue0 \o added
            /\ current_url \notin Range(urls_to_visit)
            /\ \A u \in Range(urls_to_visit) \ Range(call.queue0) : Admitted(u)

\* C17 witness: the base page had an anchor to a page of its host and one
\* to another host, and the queue holds exactly the first
C17_Witness ==
    /\ pc = "check"
    /\ call.ok
    /\ current_url = base_url
    /\ anchors = <<Href("abs", "http", "a", "/p1"), Href("abs", "http", "b", "/p1")>>
    /\ urls_to_visit = <<Url("http", "a", "/p1")>>

====
